---- MODULE Spec2Model ----
(***************************************************************************)
(* Index geometry of fipy.meshes.grid1D.Grid1D under domain decomposition. *)
(* Every parallel worker constructs one Grid1D from the data its grid      *)
(* builder resolved and then reads the eight ID-range properties.          *)
(***************************************************************************)
EXTENDS Integers, Naturals, Sequences, FiniteSets, TLC

\* ---- bounds of the model ----
MaxNx == 4          \* largest global / local cell count
MaxProcs == 2       \* largest number of parallel workers
MaxOffset == 2      \* largest offset a user-supplied builder hands back
MaxOverlap == 1     \* largest per-side overlap a user-supplied builder hands back

VARIABLES args, communicator, pc, mesh, ret, memo

vars == <<args, communicator, pc, mesh, ret, memo>>

Min(a, b) == IF a < b THEN a ELSE b

Workers == 1..communicator.Nproc

Accessors == {"_globalNonOverlappingCellIDs", "_globalOverlappingCellIDs",
              "_localNonOverlappingCellIDs", "_localOverlappingCellIDs",
              "_globalNonOverlappingFaceIDs", "_globalOverlappingFaceIDs",
              "_localNonOverlappingFaceIDs", "_localOverlappingFaceIDs"}

\* ---- numerix.arange(start, stop): start, start+1, ..., stop-1 ----
RECURSIVE arangeFill(_, _)
arangeFill(start, n) ==
    IF n <= 0 THEN << >> ELSE Append(arangeFill(start, n - 1), start + n - 1)

arange(start, stop) == arangeFill(start, stop - start)

\* ---- the grid builder (external collaborator of Grid1D) ----
\* number of faces of a line of n cells
FaceCount(n) == IF n > 0 THEN n + 1 ELSE 0

\* the ways the communicator splits nx cells into Nproc contiguous slabs,
\* each worker owning at least one cell (the only worker of an empty grid
\* owns none): starts[p] is the global ID of the first cell worker p owns
Decompositions(nx, Nproc) ==
    {s \in [1..Nproc -> 0..(IF nx > 0 THEN nx - 1 ELSE 0)] :
        /\ s[1] = 0
        /\ \A p \in 1..(Nproc - 1) : s[p] < s[p + 1]}

\* NonuniformGrid1DBuilder.buildGridData for worker procID: the owned slab
\* plus a halo of at most `overlap' cells on each side that has a neighbour
buildGridData(nx, overlap, procID, comm) ==
    LET first == comm.starts[procID]
        last  == IF procID = comm.Nproc THEN nx ELSE comm.starts[procID + 1]
        left  == Min(overlap, first)
        right == Min(overlap, nx - last)
        local == (last - first) + left + right
    IN  [nx |-> local,
         offset |-> first - left,
         overlap |-> [left |-> left, right |-> right],
         numberOfFaces |-> FaceCount(local),
         globalNumberOfCells |-> nx,
         globalNumberOfFaces |-> FaceCount(nx)]

\* what a BuilderClass supplied by the caller may hand back: Grid1D.__init__
\* takes builder.gridData as it comes
CustomGridData ==
    {[nx |-> n,
      offset |-> o,
      overlap |-> [left |-> l, right |-> r],
      numberOfFaces |-> n + f,
      globalNumberOfCells |-> g,
      globalNumberOfFaces |-> FaceCount(g)] :
        n \in 0..MaxNx, o \in (-1)..MaxOffset,
        l \in (-1)..MaxOverlap, r \in (-1)..MaxOverlap,
        f \in {0, 1}, g \in {0, MaxNx}}

gridData(w) ==
    IF args.BuilderClass = "NonuniformGrid1DBuilder"
    THEN {buildGridData(args.nx, args.overlap, w, communicator)}
    ELSE CustomGridData

\* ---- the eight properties of Grid1D ----
\* variant: the right halo is not taken off the upper bound
globalNonOverlappingCellIDs_KeepsRightHalo(self) ==
    arange(self.offset + self.overlap.left, self.offset + self.nx)

globalNonOverlappingCellIDs(self) ==
    arange(self.offset + self.overlap.left,
           self.offset + self.nx - self.overlap.right)

globalOverlappingCellIDs(self) ==
    arange(self.offset, self.offset + self.nx)

\* variant: the right overlap is added to the upper bound instead of taken off
localNonOverlappingCellIDs_AddsRight(self) ==
    arange(self.overlap.left, self.nx + self.overlap.right)

localNonOverlappingCellIDs(self) ==
    arange(self.overlap.left, self.nx - self.overlap.right)

\* variant: the upper bound is one short
localOverlappingCellIDs_OneShort(self) ==
    arange(0, self.nx - 1)

localOverlappingCellIDs(self) ==
    arange(0, self.nx)

\* variant: the cell count is used where the face count belongs
globalNonOverlappingFaceIDs_UsesNx(self) ==
    arange(self.offset + self.overlap.left,
           self.offset + self.nx - self.overlap.right)

globalNonOverlappingFaceIDs(self) ==
    arange(self.offset + self.overlap.left,
           self.offset + self.numberOfFaces - self.overlap.right)

\* variant: the offset is left out of the upper bound
globalOverlappingFaceIDs_StopWithoutOffset(self) ==
    arange(self.offset, self.numberOfFaces)

globalOverlappingFaceIDs(self) ==
    arange(self.offset, self.offset + self.numberOfFaces)

\* variant: the face count is recomputed as nx + 1 instead of read
localNonOverlappingFaceIDs_NxPlusOne(self) ==
    arange(self.overlap.left, self.nx + 1 - self.overlap.right)

localNonOverlappingFaceIDs(self) ==
    arange(self.overlap.left, self.numberOfFaces - self.overlap.right)

\* variant: the lower bound is the left overlap instead of 0
localOverlappingFaceIDs_FromLeft(self) ==
    arange(self.overlap.left, self.numberOfFaces)

localOverlappingFaceIDs(self) ==
    arange(0, self.numberOfFaces)

\* ---- state ----
NoGeometry ==
    [nx |-> 0, offset |-> 0, overlap |-> [left |-> 0, right |-> 0],
     numberOfFaces |-> 0, globalNumberOfCells |-> 0, globalNumberOfFaces |-> 0]

NoResult == [acc |-> "none", ids |-> << >>]

NoMemo == [w |-> 0, acc |-> "none", ids |-> << >>]

Init ==
    /\ \/ /\ \E n \in 0..MaxNx :
                args = [nx |-> n, overlap |-> 1,
                        BuilderClass |-> "NonuniformGrid1DBuilder"]
          /\ \E P \in 1..MaxProcs :
                \E s \in Decompositions(args.nx, P) :
                    communicator = [Nproc |-> P, starts |-> s]
       \/ /\ args = [nx |-> 0, overlap |-> 0, BuilderClass |-> "Custom"]
          /\ communicator = [Nproc |-> 1, starts |-> [p \in 1..1 |-> 0]]
    /\ pc = [w \in Workers |-> "new"]
    /\ mesh = [w \in Workers |-> NoGeometry]
    /\ ret = [w \in Workers |-> NoResult]
    /\ memo = NoMemo

\* Grid1D.__init__ on worker w: the fields are whatever the builder resolved
Grid1D_init(w) ==
    /\ pc[w] = "new"
    /\ \E data \in gridData(w) : mesh' = [mesh EXCEPT ![w] = data]
    /\ pc' = [pc EXCEPT ![w] = "built"]
    /\ UNCHANGED <<args, communicator, ret, memo>>

\* a property read on worker w hands `ids' to the caller, who may keep it
Return(w, acc, ids) ==
    /\ pc[w] = "built"
    /\ ret' = [ret EXCEPT ![w] = [acc |-> acc, ids |-> ids]]
    /\ \/ memo' = memo
       \/ /\ memo.acc = "none"
          /\ memo' = [w |-> w, acc |-> acc, ids |-> ids]
    /\ UNCHANGED <<args, communicator, pc, mesh>>

Get_globalNonOverlappingCellIDs(w) ==
    Return(w, "_globalNonOverlappingCellIDs", globalNonOverlappingCellIDs(mesh[w]))

Get_globalOverlappingCellIDs(w) ==
    Return(w, "_globalOverlappingCellIDs", globalOverlappingCellIDs(mesh[w]))

Get_localNonOverlappingCellIDs(w) ==
    Return(w, "_localNonOverlappingCellIDs", localNonOverlappingCellIDs(mesh[w]))

Get_localOverlappingCellIDs(w) ==
    Return(w, "_localOverlappingCellIDs", localOverlappingCellIDs(mesh[w]))

Get_globalNonOverlappingFaceIDs(w) ==
    Return(w, "_globalNonOverlappingFaceIDs", globalNonOverlappingFaceIDs(mesh[w]))

Get_globalOverlappingFaceIDs(w) ==
    Return(w, "_globalOverlappingFaceIDs", globalOverlappingFaceIDs(mesh[w]))

Get_localNonOverlappingFaceIDs(w) ==
    Return(w, "_localNonOverlappingFaceIDs", localNonOverlappingFaceIDs(mesh[w]))

\* variant: a one-shot cursor, the read uses the face count up
Get_localOverlappingFaceIDs_Consuming(w) ==
    /\ pc[w] = "built"
    /\ ret' = [ret EXCEPT ![w] = [acc |-> "_localOverlappingFaceIDs",
                                  ids |-> localOverlappingFaceIDs(mesh[w])]]
    /\ \/ memo' = memo
       \/ /\ memo.acc = "none"
          /\ memo' = [w |-> w, acc |-> "_localOverlappingFaceIDs",
                      ids |-> localOverlappingFaceIDs(mesh[w])]
    /\ mesh' = [mesh EXCEPT ![w].numberOfFaces = 0]
    /\ UNCHANGED <<args, communicator, pc>>

Get_localOverlappingFaceIDs(w) ==
    Return(w, "_localOverlappingFaceIDs", localOverlappingFaceIDs(mesh[w]))

Next ==
    \E w \in Workers :
        \/ Grid1D_init(w)
        \/ Get_globalNonOverlappingCellIDs(w)
        \/ Get_globalOverlappingCellIDs(w)
        \/ Get_localNonOverlappingCellIDs(w)
        \/ Get_localOverlappingCellIDs(w)
        \/ Get_globalNonOverlappingFaceIDs(w)
        \/ Get_globalOverlappingFaceIDs(w)
        \/ Get_localNonOverlappingFaceIDs(w)
        \/ Get_localOverlappingFaceIDs(w)

Spec == Init /\ [][Next]_vars

\* ---- vocabulary of the properties ----
Ids(s) == {s[i] : i \in 1..Len(s)}

\* s is exactly lo, lo+1, ..., hi-1 in increasing order (empty when lo >= hi)
IsRange(s, lo, hi) ==
    /\ Len(s) = (IF hi > lo THEN hi - lo ELSE 0)
    /\ \A i \in 1..Len(s) : s[i] = lo + i - 1

CellAccessors == {"_globalNonOverlappingCellIDs", "_globalOverlappingCellIDs",
                  "_localNonOverlappingCellIDs", "_localOverlappingCellIDs"}

FaceAccessors == Accessors \ CellAccessors

GlobalAccessors == {"_globalNonOverlappingCellIDs", "_globalOverlappingCellIDs",
                    "_globalNonOverlappingFaceIDs", "_globalOverlappingFaceIDs"}

NonOverlappingAccessors ==
    {"_globalNonOverlappingCellIDs", "_localNonOverlappingCellIDs",
     "_globalNonOverlappingFaceIDs", "_localNonOverlappingFaceIDs"}

\* the local accessor a global accessor corresponds to
LocalOf(acc) ==
    CASE acc = "_globalNonOverlappingCellIDs" -> "_localNonOverlappingCellIDs"
      [] acc = "_globalOverlappingCellIDs" -> "_localOverlappingCellIDs"
      [] acc = "_globalNonOverlappingFaceIDs" -> "_localNonOverlappingFaceIDs"
      [] acc = "_globalOverlappingFaceIDs" -> "_localOverlappingFaceIDs"
      [] OTHER -> "none"

\* the overlapping accessor a non-overlapping accessor corresponds to
OverlappingOf(acc) ==
    CASE acc = "_globalNonOverlappingCellIDs" -> "_globalOverlappingCellIDs"
      [] acc = "_localNonOverlappingCellIDs" -> "_localOverlappingCellIDs"
      [] acc = "_globalNonOverlappingFaceIDs" -> "_globalOverlappingFaceIDs"
      [] acc = "_localNonOverlappingFaceIDs" -> "_localOverlappingFaceIDs"
      [] OTHER -> "none"

\* the geometry invariants of the resolved grid geometry
ValidGeometry(m) ==
    /\ m.offset >= 0
    /\ m.overlap.left >= 0
    /\ m.overlap.right >= 0
    /\ m.nx >= 0
    /\ m.nx > 0 => m.overlap.left + m.overlap.right <= m.nx
    /\ m.numberOfFaces = FaceCount(m.nx)
    /\ m.offset + m.nx <= m.globalNumberOfCells
    /\ m.offset + m.numberOfFaces <= m.globalNumberOfFaces

Built(w) == pc[w] = "built"

AllBuilt == \A w \in Workers : Built(w)

DefaultBuilder == args.BuilderClass = "NonuniformGrid1DBuilder"

\* every worker's latest read was of accessor acc
AllRead(acc) == AllBuilt /\ \A w \in Workers : ret[w].acc = acc

\* the number of workers whose latest result holds id
Owners(id) == Cardinality({w \in Workers : id \in Ids(ret[w].ids)})

\* the bounds lo, hi the range table gives accessor acc on geometry m
Count(acc, m) == IF acc \in CellAccessors THEN m.nx ELSE m.numberOfFaces

Shift(acc, m) == IF acc \in GlobalAccessors THEN m.offset ELSE 0

Lo(acc, m) ==
    Shift(acc, m) + (IF acc \in NonOverlappingAccessors THEN m.overlap.left ELSE 0)

Hi(acc, m) ==
    Shift(acc, m) + Count(acc, m)
        - (IF acc \in NonOverlappingAccessors THEN m.overlap.right ELSE 0)

\* C1: when a grid of N cells is decomposed with 1-cell halos and every
\* worker has read _globalNonOverlappingCellIDs, each cell ID of [0, N) is in
\* the result of exactly one worker and no result holds an ID outside [0, N).
C1_CellsPartition ==
    (DefaultBuilder /\ args.overlap = 1 /\ AllRead("_globalNonOverlappingCellIDs")) =>
        /\ \A id \in 0..(args.nx - 1) : Owners(id) = 1
        /\ \A w \in Workers : Ids(ret[w].ids) \subseteq 0..(args.nx - 1)

C1_Witness ==
    /\ DefaultBuilder /\ args.overlap = 1 /\ args.nx = 4
    /\ communicator.Nproc = 2
    /\ AllRead("_globalNonOverlappingCellIDs")
    /\ mesh[1].overlap.right = 1 /\ mesh[2].overlap.left = 1

\* C2: when a grid of N cells (N + 1 faces) is decomposed with 1-cell halos
\* and every worker has read _globalNonOverlappingFaceIDs, each face ID of
\* [0, N + 1) is in the result of exactly one worker.
C2_FacesPartition ==
    (DefaultBuilder /\ args.overlap = 1 /\ args.nx > 0
        /\ AllRead("_globalNonOverlappingFaceIDs")) =>
        \A id \in 0..args.nx : Owners(id) = 1

\* C3: on a valid geometry every accessor returns exactly lo, ..., hi-1 in
\* increasing order, with lo and hi as the range table gives them.
C3_RangeTable ==
    \A w \in Workers :
        (Built(w) /\ ValidGeometry(mesh[w]) /\ ret[w].acc \in Accessors) =>
            IsRange(ret[w].ids, Lo(ret[w].acc, mesh[w]), Hi(ret[w].acc, mesh[w]))

C3_Witness ==
    \E w \in Workers :
        /\ Built(w) /\ ValidGeometry(mesh[w])
        /\ mesh[w].offset > 0 /\ mesh[w].overlap.left > 0 /\ mesh[w].overlap.right > 0
        /\ ret[w].acc = "_globalNonOverlappingFaceIDs"
        /\ Len(ret[w].ids) >= 2

\* C4: on a valid geometry a global accessor and its local counterpart return
\* sequences of the same length, the i-th global ID being the i-th local ID
\* plus offset.
C4_GlobalIsLocalPlusOffset ==
    \A w \in Workers :
        (Built(w) /\ ValidGeometry(mesh[w]) /\ memo.w = w) =>
            /\ (ret[w].acc \in GlobalAccessors /\ memo.acc = LocalOf(ret[w].acc)) =>
                  /\ Len(ret[w].ids) = Len(memo.ids)
                  /\ \A i \in 1..Len(memo.ids) :
                        ret[w].ids[i] = memo.ids[i] + mesh[w].offset
            /\ (memo.acc \in GlobalAccessors /\ ret[w].acc = LocalOf(memo.acc)) =>
                  /\ Len(ret[w].ids) = Len(memo.ids)
                  /\ \A i \in 1..Len(memo.ids) :
                        memo.ids[i] = ret[w].ids[i] + mesh[w].offset

C4_Witness ==
    \E w \in Workers :
        /\ Built(w) /\ ValidGeometry(mesh[w]) /\ memo.w = w
        /\ mesh[w].offset > 0
        /\ memo.acc = "_localNonOverlappingFaceIDs"
        /\ ret[w].acc = "_globalNonOverlappingFaceIDs"
        /\ Len(memo.ids) >= 2

\* C5: no mesh is ever constructed on a geometry that violates an invariant.
C5_BadGeometryRejected ==
    \A w \in Workers : Built(w) => ValidGeometry(mesh[w])

\* C6: on the serial geometry (offset 0, no overlap, nx = N >= 1, N + 1
\* faces) every cell accessor returns 0..N-1 and every face accessor 0..N.
C6_Serial ==
    \A w \in Workers :
        (/\ Built(w)
         /\ mesh[w].offset = 0
         /\ mesh[w].overlap = [left |-> 0, right |-> 0]
         /\ mesh[w].nx >= 1
         /\ mesh[w].numberOfFaces = mesh[w].nx + 1) =>
            /\ ret[w].acc \in CellAccessors =>
                  ret[w].ids = [i \in 1..mesh[w].nx |-> i - 1]
            /\ ret[w].acc \in FaceAccessors =>
                  ret[w].ids = [i \in 1..(mesh[w].nx + 1) |-> i - 1]

C6_Witness ==
    /\ DefaultBuilder /\ communicator.Nproc = 1 /\ args.nx = 3 /\ Built(1)
    /\ ret[1].acc = "_globalNonOverlappingFaceIDs"
    /\ memo.acc = "_localOverlappingCellIDs"

\* C7: a read of any accessor leaves the geometry of every constructed mesh
\* as it was, and returns what an earlier read of the same accessor on the
\* same mesh returned.
C7_ReadsArePure ==
    [][\A w \in Workers :
          Built(w) =>
            /\ mesh'[w] = mesh[w]
            /\ (memo'.w = w /\ ret'[w].acc = memo'.acc) => ret'[w].ids = memo'.ids]_vars

C7_Witness ==
    \E w \in Workers :
        /\ Built(w) /\ memo.w = w
        /\ ret[w].acc = memo.acc /\ ret[w].acc = "_localOverlappingFaceIDs"
        /\ Len(ret[w].ids) >= 2

\* C8: on the empty mesh (nx = 0, hence no faces) with non-negative offset
\* and overlaps, every accessor returns the empty sequence.
C8_EmptyMesh ==
    \A w \in Workers :
        (/\ Built(w)
         /\ mesh[w].nx = 0 /\ mesh[w].numberOfFaces = FaceCount(0)
         /\ mesh[w].offset >= 0
         /\ mesh[w].overlap.left >= 0 /\ mesh[w].overlap.right >= 0
         /\ ret[w].acc \in Accessors) =>
            ret[w].ids = << >>

C8_Witness ==
    \E w \in Workers :
        /\ Built(w)
        /\ mesh[w].nx = 0 /\ mesh[w].numberOfFaces = 0
        /\ mesh[w].offset > 0 /\ mesh[w].overlap.left > 0
        /\ ret[w].acc = "_localNonOverlappingFaceIDs"

\* C9: on a valid geometry every ID a non-overlapping accessor returns is
\* also returned by its overlapping counterpart, and every returned ID is
\* non-negative.
C9_SubsetAndNonNegative ==
    \A w \in Workers :
        (Built(w) /\ ValidGeometry(mesh[w])) =>
            /\ \A id \in Ids(ret[w].ids) : id >= 0
            /\ (memo.w = w /\ memo.acc = OverlappingOf(ret[w].acc)) =>
                  Ids(ret[w].ids) \subseteq Ids(memo.ids)
            /\ (memo.w = w /\ ret[w].acc = OverlappingOf(memo.acc)) =>
                  Ids(memo.ids) \subseteq Ids(ret[w].ids)

C9_Witness ==
    \E w \in Workers :
        /\ Built(w) /\ ValidGeometry(mesh[w]) /\ memo.w = w
        /\ mesh[w].overlap.right > 0
        /\ memo.acc = "_localOverlappingCellIDs"
        /\ ret[w].acc = "_localNonOverlappingCellIDs"
        /\ Len(ret[w].ids) >= 1

\* the two workers of the 4-cell / 5-face scenario
WorkerA ==
    [nx |-> 3, offset |-> 0, overlap |-> [left |-> 0, right |-> 1],
     numberOfFaces |-> 4, globalNumberOfCells |-> 4, globalNumberOfFaces |-> 5]

WorkerB ==
    [nx |-> 3, offset |-> 1, overlap |-> [left |-> 1, right |-> 0],
     numberOfFaces |-> 4, globalNumberOfCells |-> 4, globalNumberOfFaces |-> 5]

ScenarioA(acc) ==
    CASE acc = "_localNonOverlappingCellIDs" -> <<0, 1>>
      [] acc = "_localOverlappingCellIDs" -> <<0, 1, 2>>
      [] acc = "_globalNonOverlappingCellIDs" -> <<0, 1>>
      [] acc = "_globalOverlappingCellIDs" -> <<0, 1, 2>>
      [] acc = "_globalNonOverlappingFaceIDs" -> <<0, 1, 2>>
      [] acc = "_localNonOverlappingFaceIDs" -> <<0, 1, 2>>
      [] acc = "_globalOverlappingFaceIDs" -> <<0, 1, 2, 3>>
      [] acc = "_localOverlappingFaceIDs" -> <<0, 1, 2, 3>>

\* C10: in the 2 + 2 split of a 4-cell grid, worker A gets the cell and face
\* ranges listed for it under all eight accessors, and worker B gets local
\* non-overlapping cells 1,2, global non-overlapping cells 2,3 and global
\* overlapping cells 1,2,3.
C10_TwoWorkerScenario ==
    \A w \in Workers :
        Built(w) =>
            /\ (mesh[w] = WorkerA /\ ret[w].acc \in Accessors) =>
                  ret[w].ids = ScenarioA(ret[w].acc)
            /\ (mesh[w] = WorkerB /\ ret[w].acc = "_localNonOverlappingCellIDs") =>
                  ret[w].ids = <<1, 2>>
            /\ (mesh[w] = WorkerB /\ ret[w].acc = "_globalNonOverlappingCellIDs") =>
                  ret[w].ids = <<2, 3>>
            /\ (mesh[w] = WorkerB /\ ret[w].acc = "_globalOverlappingCellIDs") =>
                  ret[w].ids = <<1, 2, 3>>

C10_Witness ==
    /\ DefaultBuilder /\ communicator.Nproc = 2 /\ AllBuilt
    /\ mesh[1] = WorkerA /\ mesh[2] = WorkerB
    /\ ret[1].acc = "_globalNonOverlappingFaceIDs"
    /\ ret[2].acc = "_globalNonOverlappingCellIDs"

====
